---- MODULE Spec2Model ----
(***************************************************************************)
(* Model of apps/web/src-tauri/src/lib.rs: the loopback OAuth callback     *)
(* listener (start_oauth_server and its worker thread) and the header      *)
(* parser extract_full_url_header.                                         *)
(*                                                                         *)
(* Text is modelled as a sequence of one-character strings, so that the    *)
(* parser is computed character by character as the code computes it.      *)
(***************************************************************************)
EXTENDS Integers, Sequences, FiniteSets, TLC

\* ------------------------------------------------------------------ bounds
\* Successful calls of start_oauth_server (flows) in one run of the model.
MaxStarts == 2
\* Connections made to the port and not accepted: those that wait on the
\* listener, and those reset or refused at the end of a flow.
MaxBacklog == 1

\* --------------------------------------------------------------- constants
\* const OAUTH_PORT: u16 = 17927;
OAUTH_PORT == 17927
\* let mut buffer = [0u8; 4096];
BufSize == 4096
\* for _ in 0..2
Attempts == 2
\* line[9..]: the byte length of "full-url:"
PrefixLen == 9
\* Byte length of the html template of lines 61-95 without its one {} hole.
HtmlTemplateLen == 901

\* -------------------------------------------------------------------- text
Upper == <<"A","B","C","D","E","F","G","H","I","J","K","L","M",
           "N","O","P","Q","R","S","T","U","V","W","X","Y","Z">>
Lower == <<"a","b","c","d","e","f","g","h","i","j","k","l","m",
           "n","o","p","q","r","s","t","u","v","w","x","y","z">>

\* char::to_lowercase on the characters the model uses (ASCII).
LowerChar(c) ==
    IF \E i \in 1..Len(Upper) : Upper[i] = c
    THEN Lower[CHOOSE i \in 1..Len(Upper) : Upper[i] = c]
    ELSE c

\* The client's side of the same alphabet (used to build case variants).
UpperChar(c) ==
    IF \E i \in 1..Len(Lower) : Lower[i] = c
    THEN Upper[CHOOSE i \in 1..Len(Lower) : Lower[i] = c]
    ELSE c

\* str::to_lowercase
to_lowercase(s) == [i \in 1..Len(s) |-> LowerChar(s[i])]

\* str::starts_with
starts_with(s, p) == Len(s) >= Len(p) /\ SubSeq(s, 1, Len(p)) = p

\* char::is_whitespace on the characters the model uses.
IsWhitespace(c) == c \in {" ", "\t", "\r", "\n"}

\* str::trim: drop leading and trailing whitespace.
trim(s) ==
    LET keep == {i \in 1..Len(s) : ~IsWhitespace(s[i])}
    IN  IF keep = {} THEN <<>>
        ELSE LET lo == CHOOSE i \in keep : \A j \in keep : i <= j
                 hi == CHOOSE i \in keep : \A j \in keep : i >= j
             IN  SubSeq(s, lo, hi)

\* str::lines: split at "\n"; a line that ended in "\n" also loses one "\r"
\* before it; a final piece without "\n" is a line as it stands; nothing
\* follows a final "\n".
RECURSIVE lines(_)
lines(s) ==
    IF s = <<>> THEN <<>>
    ELSE LET nl == {i \in 1..Len(s) : s[i] = "\n"}
         IN  IF nl = {} THEN <<s>>
             ELSE LET k    == CHOOSE i \in nl : \A j \in nl : i <= j
                      raw  == SubSeq(s, 1, k - 1)
                      line == IF raw # <<>> /\ raw[Len(raw)] = "\r"
                              THEN SubSeq(raw, 1, Len(raw) - 1) ELSE raw
                  IN  <<line>> \o lines(SubSeq(s, k + 1, Len(s)))

\* Option<String>
None == [some |-> FALSE]
Some(v) == [some |-> TRUE, val |-> v]

FullUrlPrefix == <<"f","u","l","l","-","u","r","l",":">>

\* Line 14 with the line compared as written, not lowered.
HeaderLineMatchesCaseSensitive(line) == starts_with(line, FullUrlPrefix)

\* The condition of line 14 on the lowered line.
HeaderLineMatches(line) == starts_with(to_lowercase(line), FullUrlPrefix)

\* Line 15 without trim().
extract_full_url_header_NoTrim(request) ==
    LET ls   == lines(request)
        hits == {i \in 1..Len(ls) : HeaderLineMatches(ls[i])}
    IN  IF hits = {} THEN None
        ELSE LET k == CHOOSE i \in hits : \A j \in hits : i <= j
             IN  Some(SubSeq(ls[k], PrefixLen + 1, Len(ls[k])))

\* fn extract_full_url_header(request: &str) -> Option<String>
extract_full_url_header(request) ==
    LET ls   == lines(request)
        hits == {i \in 1..Len(ls) : HeaderLineMatches(ls[i])}
    IN  IF hits = {} THEN None
        ELSE LET k == CHOOSE i \in hits : \A j \in hits : i <= j
             IN  Some(trim(SubSeq(ls[k], PrefixLen + 1, Len(ls[k]))))

\* ------------------------------------------------- the client's requests
\* What a client puts on a connection: a request line, header lines and the
\* empty line, or nothing at all (sent = FALSE: it connects and closes).
S_GET     == <<"G","E","T">>
S_POST    == <<"P","O","S","T">>
S_PUT     == <<"P","U","T">>
S_HTTP11  == <<"H","T","T","P","/","1",".","1">>
CRLF      == <<"\r","\n">>
P_ROOT    == <<"/","?","c","=","a">>
P_FAVICON == <<"/","f","a","v","i","c","o","n",".","i","c","o">>
P_CB      == <<"/","c","b">>
P_CBX     == <<"/","c","b","x">>
N_FULLURL == <<"F","u","l","l","-","U","r","l">>
H_ACCEPT  == <<"A","c","c","e","p","t",":"," ","*","/","*">>
H_XFULL   == <<"X","-","F","u","l","l","-","U","r","l",":"," ","n","o">>
URL1      == <<"h",":","/","c","?","a","#","f">>
URL2      == <<"u","2">>
URL3      == <<"a"," ","b",":","c">>

NoHdr == [present |-> FALSE]
Hdr(name, lead, value, trail) ==
    [present |-> TRUE, name |-> name, lead |-> lead, value |-> value, trail |-> trail]

Req(method, path, pre, hdr) ==
    [sent |-> TRUE, method |-> method, path |-> path, pre |-> pre, hdr |-> hdr]
ReqEmpty == [sent |-> FALSE]

RECURSIVE RenderLines(_)
RenderLines(ls) ==
    IF ls = <<>> THEN <<>> ELSE Head(ls) \o CRLF \o RenderLines(Tail(ls))

\* The bytes of a request as the client writes them.
Render(req) ==
    IF ~req.sent THEN <<>>
    ELSE req.method \o <<" ">> \o req.path \o <<" ">> \o S_HTTP11 \o CRLF
         \o RenderLines(req.pre)
         \o (IF req.hdr.present
             THEN req.hdr.name \o <<":">> \o req.hdr.lead \o req.hdr.value
                  \o req.hdr.trail \o CRLF
             ELSE <<>>)
         \o CRLF

\* The name with the letters at the positions of mask in upper case and the
\* others in lower case.
CaseVariant(name, mask) ==
    [i \in 1..Len(name) |->
        IF i \in mask THEN UpperChar(LowerChar(name[i])) ELSE LowerChar(name[i])]

ReqRedirect    == Req(S_GET, P_ROOT, <<H_ACCEPT>>, NoHdr)
ReqFavicon     == Req(S_GET, P_FAVICON, <<H_ACCEPT>>, NoHdr)
ReqCallback    == Req(S_POST, P_CB, <<H_ACCEPT>>, Hdr(N_FULLURL, <<" ">>, URL1, <<>>))
ReqCallbackGet == Req(S_GET, P_CB, <<>>,
                      Hdr(CaseVariant(N_FULLURL, {}), <<>>, URL2, <<" ">>))
ReqNoHeader    == Req(S_POST, P_CB, <<H_ACCEPT>>, NoHdr)

\* Requests with the header that no page of the flow sends: for a path that
\* only begins with /cb, for another path, with another method, and for /cb
\* with a header value that is empty or nothing but whitespace.
ReqCbx         == Req(S_GET, P_CBX, <<>>, Hdr(N_FULLURL, <<" ">>, URL2, <<>>))
ReqOtherPath   == Req(S_POST, P_ROOT, <<>>, Hdr(N_FULLURL, <<" ">>, URL2, <<>>))
ReqPut         == Req(S_PUT, P_CB, <<>>, Hdr(N_FULLURL, <<" ">>, URL2, <<>>))
ReqNoValue     == Req(S_POST, P_CB, <<>>, Hdr(N_FULLURL, <<>>, <<>>, <<>>))
ReqBlank       == Req(S_GET, P_CB, <<>>, Hdr(N_FULLURL, <<" ">>, <<>>, <<" ","\t">>))

\* A POST /cb request longer than the worker's buffer: a header line of n
\* filler characters comes before Full-Url: URL1.
Filler(n) == <<"X",":"," ">> \o [i \in 1..n |-> "x"]
ReqFilled(n) == Req(S_POST, P_CB, <<Filler(n)>>, Hdr(N_FULLURL, <<" ">>, URL1, <<>>))
\* The number of bytes of ReqFilled(0) that come before its URL.
BeforeUrl == Len(Render(ReqFilled(0))) - Len(URL1) - Len(CRLF \o CRLF)
\* The filled request of which the first BufSize bytes end k bytes after the
\* start of the URL (before it, for a negative k).
ReqCutAt(k) == ReqFilled(BufSize - BeforeUrl - k)
\* Cut after the line of the header, in the URL, and before the header's name.
ReqCutAfterHeader == ReqCutAt(Len(URL1) + Len(CRLF))
ReqCutInUrl       == ReqCutAt(Len(URL1) \div 2)
ReqCutBeforeHeader == ReqCutAt(0 - PrefixLen - Len(CRLF))

\* The requests the clients of the model send.
Requests ==
    {ReqRedirect, ReqFavicon, ReqCallback, ReqCallbackGet, ReqNoHeader, ReqEmpty}

\* --------------------------------------------------------------- responses
\* Line 52.
SuccessResponse ==
    [status  |-> 200,
     headers |-> <<<<"Content-Length", 0>>, <<"Access-Control-Allow-Origin", "*">>>>,
     body    |-> <<>>]

RECURSIVE DecimalDigits(_)
DecimalDigits(n) == IF n < 10 THEN 1 ELSE 1 + DecimalDigits(n \div 10)

\* The page with a fetch target that leaves the port out.
BridgeHtmlNoPort(port) ==
    [title       |-> "Authentication Successful",
     fetchTarget |-> <<"http://127.0.0.1", "/cb">>,
     fetchMethod |-> "POST",
     fetchHeader |-> <<"Full-Url", "window.location.href">>,
     len         |-> HtmlTemplateLen]

\* Lines 60-97: the page, with the port formatted into the fetch target.
BridgeHtml(port) ==
    [title       |-> "Authentication Successful",
     fetchTarget |-> <<"http://127.0.0.1:", port, "/cb">>,
     fetchMethod |-> "POST",
     fetchHeader |-> <<"Full-Url", "window.location.href">>,
     len         |-> HtmlTemplateLen + DecimalDigits(port)]

\* Lines 99-103.
BridgeResponse ==
    [status  |-> 200,
     headers |-> <<<<"Content-Type", "text/html; charset=utf-8">>,
                   <<"Content-Length", BridgeHtml(OAUTH_PORT).len>>>>,
     body    |-> BridgeHtml(OAUTH_PORT)]

NoResponse == [status |-> 0]

\* ----------------------------------------------------- the request handler
\* Line 46.
IsCallbackRequest(request) ==
    \/ starts_with(request, S_GET \o <<" ">> \o P_CB)
    \/ starts_with(request, S_POST \o <<" ">> \o P_CB)

\* app_handle.emit("oauth-callback", url)
Event(url) == [name |-> "oauth-callback", payload |-> url]

\* Lines 43-104 with the break placed after the bridge response as well.
HandleBreaksAlways(request) ==
    LET url == extract_full_url_header(request)
    IN  IF IsCallbackRequest(request) /\ url.some
        THEN [emit |-> <<Event(url.val)>>, resp |-> SuccessResponse, brk |-> TRUE, writes |-> 1]
        ELSE [emit |-> <<>>, resp |-> BridgeResponse, brk |-> TRUE, writes |-> 1]

\* Lines 43-104 with a missing header read as the empty url.
HandleEmitsWithoutHeader(request) ==
    LET url == extract_full_url_header(request)
    IN  IF IsCallbackRequest(request)
        THEN [emit |-> <<Event(IF url.some THEN url.val ELSE <<>>)>>,
              resp |-> SuccessResponse, brk |-> TRUE, writes |-> 1]
        ELSE [emit |-> <<>>, resp |-> BridgeResponse, brk |-> FALSE, writes |-> 1]

\* Lines 43-104 without the break of line 54: after the success response the
\* code runs on and writes the bridge page to the same stream.
HandleFallsThrough(request) ==
    LET url == extract_full_url_header(request)
    IN  IF IsCallbackRequest(request) /\ url.some
        THEN [emit |-> <<Event(url.val)>>, resp |-> BridgeResponse, brk |-> FALSE,
              writes |-> 2]
        ELSE [emit |-> <<>>, resp |-> BridgeResponse, brk |-> FALSE, writes |-> 1]

\* Lines 43-104 on the text that was read: the events emitted, the response
\* written last, whether the loop is left (break), and the number of
\* responses written to the stream.
Handle(request) ==
    LET url == extract_full_url_header(request)
    IN  IF IsCallbackRequest(request) /\ url.some
        THEN [emit |-> <<Event(url.val)>>, resp |-> SuccessResponse, brk |-> TRUE, writes |-> 1]
        ELSE [emit |-> <<>>, resp |-> BridgeResponse, brk |-> FALSE, writes |-> 1]

\* buffer[..n] of line 43: one read fills at most the buffer.
ReadBytes(bytes) ==
    IF Len(bytes) <= BufSize THEN bytes ELSE SubSeq(bytes, 1, BufSize)

\* ------------------------------------------------------------------- state
\* The listener is owned by one worker at a time (a bind fails while it
\* exists), so the state holds one flow: the worker spawned last, the
\* connections made to its listener and the events it emitted.  A successful
\* start begins a new flow.
VARIABLES
    listener,   \* TRUE while the worker's TcpListener exists (the port is bound)
    result,     \* the result of the last start_oauth_server call
    okCalls,    \* the number of calls that returned Ok
    spawned,    \* the number of worker threads spawned
    alive,      \* the number of worker threads that have not returned
    pc,         \* the worker: "none", "accept", "read" or "done"
    iter,       \* the worker: the index of the running loop iteration
    accepts,    \* the worker: the number of accept calls performed
    conns,      \* the connections the worker accepted, in order
    events,     \* the events the worker emitted, in order
    backlog,    \* connections made to the listener and not yet accepted
    lost,       \* connections reset when the listener was closed, or refused
                \* because it was closed
    xreq,       \* parser check: the request under test
    xout,       \* parser check: the result on the request under test
    xref,       \* parser check: the result on the canonically named request
    xdone       \* parser check: the parser has been applied

sysvars == <<listener, result, okCalls, spawned, alive, pc, iter, accepts, conns,
             events, backlog, lost>>
flow    == <<pc, iter, accepts, conns, events, backlog, lost>>
xvars   == <<xreq, xout, xref, xdone>>
vars    == <<listener, result, okCalls, spawned, alive, pc, iter, accepts, conns,
             events, backlog, lost, xreq, xout, xref, xdone>>

NoCall == [ok |-> FALSE, msg |-> <<>>]

SysInit ==
    /\ listener = FALSE
    /\ result = NoCall
    /\ okCalls = 0
    /\ spawned = 0
    /\ alive = 0
    /\ pc = "none"
    /\ iter = 0
    /\ accepts = 0
    /\ conns = <<>>
    /\ events = <<>>
    /\ backlog = <<>>
    /\ lost = <<>>

XIdle ==
    /\ xreq = ReqEmpty
    /\ xout = None
    /\ xref = None
    /\ xdone = FALSE

Init == SysInit /\ XIdle

\* ------------------------------------------------------ start_oauth_server
\* A bind that shares the port (SO_REUSEPORT): the port is never found held.
PortHeldNever == FALSE

\* TcpListener::bind fails while the worker holds the port.
PortHeld == listener

\* Line 25: the error of a failed bind.
BindError(e) == [ok |-> FALSE, msg |-> <<"Failed to bind port ", OAUTH_PORT, ": ", e>>]
\* Line 30: the error of a failed set_nonblocking.
BlockingError(e) == [ok |-> FALSE, msg |-> <<"Failed to set blocking mode: ", e>>]
\* Line 110.
OkPort == [ok |-> TRUE, port |-> OAUTH_PORT]

\* The reasons for which the system refuses the bind of a port that the
\* worker does not hold: another process holds it, or the bind is not
\* permitted.
BindRefusals == {"AddrInUse", "PermissionDenied"}

\* Lines 24-25, the worker holds the port: the call returns the bind error.
StartBindInUse ==
    /\ PortHeld
    /\ result' = BindError("AddrInUse")
    /\ UNCHANGED <<listener, okCalls, spawned, alive>>
    /\ UNCHANGED flow
    /\ UNCHANGED xvars

\* Lines 24-25, the system refuses the bind: the call returns the bind error.
StartBindRefused(e) ==
    /\ ~PortHeld
    /\ result' = BindError(e)
    /\ UNCHANGED <<listener, okCalls, spawned, alive>>
    /\ UNCHANGED flow
    /\ UNCHANGED xvars

\* Line 37: thread::spawn; the closure owns the listener and starts the loop.
SpawnWorker ==
    /\ spawned' = spawned + 1
    /\ alive' = alive + 1
    /\ listener' = TRUE
    /\ pc' = "accept"
    /\ iter' = 0
    /\ accepts' = 0
    /\ conns' = <<>>
    /\ events' = <<>>
    /\ backlog' = <<>>
    /\ lost' = <<>>

\* Lines 24-30 with the thread spawned before set_nonblocking is checked.
StartBlockingFailsSpawns ==
    /\ ~PortHeld
    /\ okCalls < MaxStarts
    /\ spawned < MaxStarts
    /\ SpawnWorker
    /\ result' = BlockingError("Os")
    /\ UNCHANGED okCalls
    /\ UNCHANGED xvars

\* Lines 24-30: the bind succeeds, set_nonblocking fails; the listener is
\* dropped on return and no thread is spawned.
StartBlockingFails ==
    /\ ~PortHeld
    /\ result' = BlockingError("Os")
    /\ UNCHANGED <<listener, okCalls, spawned, alive>>
    /\ UNCHANGED flow
    /\ UNCHANGED xvars

\* Lines 24-110: bind and set_nonblocking succeed, the worker is spawned with
\* the listener moved into it, and the call returns the port.
StartOk ==
    /\ ~PortHeld
    /\ okCalls < MaxStarts
    /\ SpawnWorker
    /\ result' = OkPort
    /\ okCalls' = okCalls + 1
    /\ UNCHANGED xvars

\* ----------------------------------------------------------- the environment
\* A client connects to the worker's listener and sends its request.
Connect(req) ==
    /\ listener
    /\ Len(backlog) < MaxBacklog
    /\ backlog' = Append(backlog, req)
    /\ UNCHANGED <<listener, result, okCalls, spawned, alive, pc, iter, accepts,
                   conns, events, lost>>
    /\ UNCHANGED xvars

\* A client connects after the worker has returned and closed the listener:
\* the connection is refused.
ConnectRefused(req) ==
    /\ pc = "done"
    /\ ~listener
    /\ Len(lost) < MaxBacklog
    /\ lost' = Append(lost, [req |-> req, why |-> "refused"])
    /\ UNCHANGED <<listener, result, okCalls, spawned, alive, pc, iter, accepts,
                   conns, events, backlog>>
    /\ UNCHANGED xvars

\* -------------------------------------------------------------- the worker
\* The thread's closure returns: the listener it owns is dropped, and the
\* connections still waiting on it are reset.
Exit ==
    /\ pc' = "done"
    /\ alive' = alive - 1
    /\ listener' = FALSE
    /\ lost' = lost \o [k \in 1..Len(backlog) |-> [req |-> backlog[k], why |-> "reset"]]
    /\ backlog' = <<>>

\* The loop with one iteration too many.
EndIterationOffByOne ==
    /\ iter' = iter + 1
    /\ IF iter + 1 <= Attempts
       THEN /\ pc' = "accept"
            /\ UNCHANGED <<alive, listener, lost, backlog>>
       ELSE Exit

\* The end of one iteration of `for _ in 0..2`.
EndIteration ==
    /\ iter' = iter + 1
    /\ IF iter + 1 < Attempts
       THEN /\ pc' = "accept"
            /\ UNCHANGED <<alive, listener, lost, backlog>>
       ELSE Exit

\* Line 54 without the break: the loop goes on to its next iteration.
BreakContinues ==
    /\ iter' = iter + 1
    /\ IF iter + 1 < Attempts
       THEN /\ pc' = "accept"
            /\ UNCHANGED <<alive, listener, lost, backlog>>
       ELSE Exit

\* Line 54: break.
Break ==
    /\ UNCHANGED iter
    /\ Exit

\* A connection the worker has accepted and not yet read; at is the loop
\* iteration that accepted it.
Accepted(req) ==
    [req |-> req, at |-> iter, st |-> "accepted", resp |-> NoResponse,
     wrote |-> FALSE, emitted |-> <<>>, writes |-> 0]

\* Line 40: accept returns a connection.
AcceptOk ==
    /\ pc = "accept"
    /\ backlog # <<>>
    /\ accepts' = accepts + 1
    /\ conns' = Append(conns, Accepted(Head(backlog)))
    /\ backlog' = Tail(backlog)
    /\ pc' = "read"
    /\ UNCHANGED <<listener, result, okCalls, spawned, alive, iter, events, lost>>
    /\ UNCHANGED xvars

\* Line 40: accept returns an error; the iteration ends.
AcceptErr ==
    /\ pc = "accept"
    /\ accepts' = accepts + 1
    /\ EndIteration
    /\ UNCHANGED <<result, okCalls, spawned, conns, events>>
    /\ UNCHANGED xvars

\* Line 42: read returns an error; the stream is dropped and the iteration ends.
ReadErr ==
    /\ pc = "read"
    /\ conns' = [conns EXCEPT ![Len(conns)].st = "readerr"]
    /\ EndIteration
    /\ UNCHANGED <<result, okCalls, spawned, accepts, events>>
    /\ UNCHANGED xvars

\* Lines 42-105 with the first accepted connection always taken for the
\* redirect: it gets the bridge page whatever it asks for.
ReadOkFirstIsRedirect(writeOk) ==
    /\ pc = "read"
    /\ LET k == Len(conns)
           h == IF k = 1
                THEN [emit |-> <<>>, resp |-> BridgeResponse, brk |-> FALSE, writes |-> 1]
                ELSE Handle(ReadBytes(Render(conns[k].req)))
       IN  /\ conns' = [conns EXCEPT ![k] =
                          [req |-> conns[k].req, at |-> conns[k].at, st |-> "handled",
                           resp |-> h.resp, wrote |-> writeOk, emitted |-> h.emit,
                           writes |-> h.writes]]
           /\ events' = events \o h.emit
           /\ IF h.brk THEN Break ELSE EndIteration
    /\ UNCHANGED <<result, okCalls, spawned, accepts>>
    /\ UNCHANGED xvars

\* Lines 42-105 with the result of write_all propagated: a failed write ends
\* the loop.
ReadOkWriteErrorReturns(writeOk) ==
    /\ pc = "read"
    /\ LET k == Len(conns)
           h == Handle(ReadBytes(Render(conns[k].req)))
       IN  /\ conns' = [conns EXCEPT ![k] =
                          [req |-> conns[k].req, at |-> conns[k].at, st |-> "handled",
                           resp |-> h.resp, wrote |-> writeOk, emitted |-> h.emit,
                           writes |-> h.writes]]
           /\ events' = events \o h.emit
           /\ IF h.brk \/ ~writeOk THEN Break ELSE EndIteration
    /\ UNCHANGED <<result, okCalls, spawned, accepts>>
    /\ UNCHANGED xvars

\* Lines 42-105: read returns the request; it is handled, the response is
\* written (the result of write_all is ignored), and the loop is left or the
\* iteration ends.
ReadOk(writeOk) ==
    /\ pc = "read"
    /\ LET k == Len(conns)
           h == Handle(ReadBytes(Render(conns[k].req)))
       IN  /\ conns' = [conns EXCEPT ![k] =
                          [req |-> conns[k].req, at |-> conns[k].at, st |-> "handled",
                           resp |-> h.resp, wrote |-> writeOk, emitted |-> h.emit,
                           writes |-> h.writes]]
           /\ events' = events \o h.emit
           /\ IF h.brk THEN Break ELSE EndIteration
    /\ UNCHANGED <<result, okCalls, spawned, accepts>>
    /\ UNCHANGED xvars

AcceptReturns == AcceptOk \/ AcceptErr
ReadReturns == ReadErr \/ \E ok \in BOOLEAN : ReadOk(ok)

Next ==
    \/ StartBindInUse
    \/ \E e \in BindRefusals : StartBindRefused(e)
    \/ StartBlockingFails
    \/ StartOk
    \/ \E req \in Requests : Connect(req)
    \/ \E req \in Requests : ConnectRefused(req)
    \/ AcceptOk
    \/ AcceptErr
    \/ ReadErr
    \/ \E ok \in BOOLEAN : ReadOk(ok)

Spec == Init /\ [][Next]_vars

\* Every pending accept and every pending read eventually returns.
FairSpec ==
    /\ Init
    /\ [][Next]_vars
    /\ WF_vars(AcceptReturns)
    /\ WF_vars(ReadReturns)

\* ------------------------------------------- the parser on single requests
\* The requests the parser is checked on: a /cb request whose Full-Url header
\* name runs through every upper/lower-case spelling, with and without
\* whitespace around the value and with other header lines before it.
LetterPositions == {i \in 1..Len(N_FULLURL) : UpperChar(N_FULLURL[i]) # LowerChar(N_FULLURL[i])}
XNames  == {CaseVariant(N_FULLURL, mask) : mask \in SUBSET LetterPositions}
XPres   == {<<>>, <<H_ACCEPT>>, <<H_XFULL>>}
XLeads  == {<<>>, <<" ">>, <<"\t">>}
XTrails == {<<>>, <<" ">>}
XValues == {URL1, URL2, URL3}
XRequests ==
    {Req(S_POST, P_CB, pre, Hdr(name, lead, value, trail)) :
        pre \in XPres, name \in XNames, lead \in XLeads, value \in XValues,
        trail \in XTrails}

\* Requests the parser is also run on: the unusual and the oversized ones.
XOddRequests ==
    {ReqCbx, ReqOtherPath, ReqPut, ReqNoValue, ReqBlank,
     ReqCutAfterHeader, ReqCutInUrl, ReqCutBeforeHeader}

\* The same request with the header name spelled Full-Url.
Canonical(req) == [req EXCEPT !.hdr.name = N_FULLURL]

\* What the worker makes of a request: the header value it extracts, the
\* events it emits, the response it writes and whether it leaves the loop.
Outcome(req) ==
    LET request == ReadBytes(Render(req))
        h == Handle(request)
    IN  [url |-> extract_full_url_header(request), emit |-> h.emit,
         resp |-> h.resp, brk |-> h.brk]

InitExtract ==
    /\ SysInit
    /\ xreq \in XRequests \cup XOddRequests
    /\ xout = None
    /\ xref = None
    /\ xdone = FALSE

ExtractStep ==
    /\ ~xdone
    /\ xout' = Outcome(xreq)
    /\ xref' = Outcome(Canonical(xreq))
    /\ xdone' = TRUE
    /\ UNCHANGED xreq
    /\ UNCHANGED sysvars

NextExtract == ExtractStep

SpecExtract == InitExtract /\ [][NextExtract]_vars

\* ------------------------------------------------------------------ claims
\* The request as the client built it matches GET /cb or POST /cb.
ReqMatchesCb(req) ==
    /\ req.sent
    /\ req.method \in {S_GET, S_POST}
    /\ starts_with(req.path, P_CB)

\* The request as the client built it carries a Full-Url header.
ReqHasHeader(req) == req.sent /\ req.hdr.present

Handled(c) == c.st = "handled"

\* The worker has made no step since it handled connection c.
JustHandled(c) == Handled(c) /\ c = conns[Len(conns)] /\ iter <= c.at + 1

\* The event that carries url.
CallbackEvent(url) == [name |-> "oauth-callback", payload |-> url]

\* The flow that is running is still the same after the step.
SameFlow == spawned' = spawned

\* C1: a worker performs at most 2 accept calls whatever their outcomes, and
\* after a delivery or after its 2nd accept it performs no further accept.
C1_AcceptBudget ==
    /\ [](accepts <= 2)
    /\ [][(SameFlow /\ (events # <<>> \/ accepts = 2)) => accepts' = accepts]_vars

C1_Witness == pc = "done" /\ accepts = 2 /\ Len(conns) = 1 /\ conns[1].st = "readerr"

\* C2: a handled request that matches GET /cb or POST /cb and carries a
\* Full-Url header with a non-empty value v makes the worker publish one
\* "oauth-callback" event whose payload is v, and nothing else.
C2_PublishesValue ==
    \A k \in 1..Len(conns) :
        LET c == conns[k]
        IN  (Handled(c) /\ ReqMatchesCb(c.req) /\ ReqHasHeader(c.req)
                /\ c.req.hdr.value # <<>>)
            => /\ c.emitted = <<CallbackEvent(c.req.hdr.value)>>
               /\ events = <<CallbackEvent(c.req.hdr.value)>>

C2_Witness ==
    /\ Len(conns) = 2
    /\ Handled(conns[2])
    /\ conns[2].req = ReqCallbackGet
    /\ events = <<CallbackEvent(URL2)>>

\* C3 as stated: after handling a request that does not match /cb the worker
\* has written the bridge page and is again waiting to accept.
C3_Original ==
    \A k \in 1..Len(conns) :
        LET c == conns[k]
        IN  (JustHandled(c) /\ ~ReqMatchesCb(c.req))
            => c.resp = BridgeResponse /\ pc = "accept"

\* C3 as amended: a request that does not match /cb is answered with the
\* bridge page, publishes nothing and does not end the worker early: after
\* it was handled on the 1st attempt the worker waits to accept again, after
\* it was handled on the 2nd attempt the worker has terminated.
C3_BridgeThenBudget ==
    \A k \in 1..Len(conns) :
        LET c == conns[k]
        IN  /\ (Handled(c) /\ ~ReqMatchesCb(c.req))
                => c.resp = BridgeResponse /\ c.emitted = <<>>
            /\ (JustHandled(c) /\ ~ReqMatchesCb(c.req))
                => /\ iter = c.at + 1
                   /\ IF c.at + 1 < 2 THEN pc = "accept" /\ listener
                                      ELSE pc = "done" /\ ~listener

C3_Witness ==
    /\ Len(conns) = 1
    /\ JustHandled(conns[1])
    /\ conns[1].req = ReqRedirect
    /\ conns[1].at = 0
    /\ pc = "accept"

IsBindError(r) ==
    /\ ~r.ok
    /\ Len(r.msg) = 4
    /\ r.msg[1] = "Failed to bind port "
    /\ r.msg[2] = 17927

\* C5 as stated: as many workers were started as calls succeeded, and every
\* call either failed at bind with an error naming the port, or started a
\* worker and returned the port.
C5_Original ==
    /\ spawned = okCalls
    /\ \/ result = NoCall
       \/ IsBindError(result)
       \/ result = [ok |-> TRUE, port |-> 17927]

\* C5 as amended: as many workers were started as calls succeeded; a call
\* fails at bind with an error naming the port, or fails at set_nonblocking
\* after a successful bind with an error of its own, in both cases starting
\* no worker, or it starts exactly one worker and returns the port.
C5_WorkersMatchOkCalls ==
    /\ spawned = okCalls
    /\ \/ result = NoCall
       \/ IsBindError(result)
       \/ ~result.ok /\ result.msg = <<"Failed to set blocking mode: ", "Os">>
       \/ result = [ok |-> TRUE, port |-> 17927]
    /\ [][\/ /\ result'.ok /\ okCalls' = okCalls + 1 /\ spawned' = spawned + 1
          \/ /\ okCalls' = okCalls /\ spawned' = spawned]_vars

C5_Witness ==
    /\ okCalls = 1
    /\ spawned = 1
    /\ pc = "read"
    /\ IsBindError(result)

\* C6: a first handled request that does not match /cb, followed by a second
\* handled request POST /cb with Full-Url: u, gives the bridge page (200,
\* text/html, fetch target with the port) on the first connection, exactly one
\* event with payload u, the empty 200 response with the CORS header on the
\* second connection, and a terminated worker.
C6_RoundTrip ==
    (/\ Len(conns) = 2
     /\ Handled(conns[1]) /\ ~ReqMatchesCb(conns[1].req)
     /\ Handled(conns[2]) /\ ReqMatchesCb(conns[2].req)
     /\ conns[2].req.method = S_POST /\ ReqHasHeader(conns[2].req))
    => /\ conns[1].resp.status = 200
       /\ conns[1].resp.headers[1] = <<"Content-Type", "text/html; charset=utf-8">>
       /\ conns[1].resp.body.fetchTarget = <<"http://127.0.0.1:", 17927, "/cb">>
       /\ conns[1].resp.body.fetchMethod = "POST"
       /\ events = <<CallbackEvent(conns[2].req.hdr.value)>>
       /\ conns[2].resp.status = 200
       /\ conns[2].resp.headers
            = <<<<"Content-Length", 0>>, <<"Access-Control-Allow-Origin", "*">>>>
       /\ conns[2].resp.body = <<>>
       /\ pc = "done"

C6_Witness ==
    /\ Len(conns) = 2
    /\ conns[1].req = ReqRedirect /\ Handled(conns[1])
    /\ conns[2].req = ReqCallback /\ Handled(conns[2])
    /\ events = <<CallbackEvent(URL1)>>
    /\ pc = "done"

\* C7: a flow publishes at most one event, and once the event is published
\* the worker accepts, reads and publishes nothing further.
C7_OneShot ==
    /\ [](Len(events) <= 1)
    /\ [][(SameFlow /\ events # <<>>)
            => accepts' = accepts /\ conns' = conns /\ events' = events]_vars

C7_Witness ==
    /\ Len(events) = 1
    /\ pc = "done"
    /\ iter = 0
    /\ lost # <<>>

\* A connection of the flow delivered its url.
Delivered == \E k \in 1..Len(conns) : conns[k].emitted # <<>>

\* C8: the worker is terminated exactly when it has delivered or has used up
\* both attempts; when it used them up without a delivery no event at all was
\* published; and a started worker whose accepts and reads return eventually
\* terminates.
C8_Termination ==
    /\ []((pc = "done") <=> (pc # "none" /\ (Delivered \/ iter = 2)))
    /\ []((pc = "done" /\ ~Delivered) => (accepts = 2 /\ events = <<>>))
    /\ []((pc = "done" /\ Delivered) => Len(events) = 1)
    /\ ((pc \in {"accept", "read"}) ~> (pc = "done"))

C8_Witness == pc = "done" /\ ~Delivered /\ accepts = 2 /\ Len(conns) = 2

\* C9: every upper/lower-case spelling of the header name gives the same
\* extracted value and the same published events as the spelling Full-Url.
C9_CaseInsensitive == xdone => (xout.url = xref.url /\ xout.emit = xref.emit)

C9_Witness ==
    /\ xdone
    /\ xreq.hdr.name = CaseVariant(N_FULLURL, LetterPositions)
    /\ xout.url = Some(xreq.hdr.value)
    /\ xout.emit = <<CallbackEvent(xreq.hdr.value)>>

\* The flow of C10: the worker handled a preliminary request and then the
\* redirect.
PreliminaryThenRedirect ==
    /\ Len(conns) = 2
    /\ Handled(conns[1]) /\ ~ReqMatchesCb(conns[1].req)
    /\ Handled(conns[2]) /\ ~ReqMatchesCb(conns[2].req)

\* A POST /cb with Full-Url: u was sent to the port after the worker's last
\* response, and was refused.
CallbackSent(u) ==
    \E k \in 1..Len(lost) :
        /\ lost[k].why = "refused"
        /\ ReqMatchesCb(lost[k].req) /\ lost[k].req.method = S_POST
        /\ ReqHasHeader(lost[k].req) /\ lost[k].req.hdr.value = u

\* C10 as stated: when the worker has handled a preliminary request and the
\* redirect, and has terminated, the event with the url of the POST /cb that
\* followed has been published.
C10_Original ==
    \A u \in {URL1, URL2} :
        (PreliminaryThenRedirect /\ CallbackSent(u) /\ pc = "done")
        => events = <<CallbackEvent(u)>>

\* C10 as amended: a preliminary request that does not match /cb uses up one
\* of the two attempts; once the worker has handled it and the redirect, the
\* worker has terminated and closed the listener without any event, and the
\* POST /cb that follows is never accepted.
C10_PreliminaryUsesBudget ==
    PreliminaryThenRedirect
    => /\ pc = "done"
       /\ ~listener
       /\ events = <<>>
       /\ backlog = <<>>
       /\ conns[1].resp = BridgeResponse
       /\ conns[2].resp = BridgeResponse

C10_Witness ==
    /\ PreliminaryThenRedirect
    /\ conns[1].req = ReqFavicon
    /\ conns[2].req = ReqRedirect
    /\ CallbackSent(URL1)
    /\ lost = <<[req |-> ReqCallback, why |-> "refused"]>>

\* The request as the client built it has the method GET or POST, the path
\* /cb itself and a Full-Url header line.
ReqIsCallbackWithHeader(req) ==
    /\ req.sent
    /\ req.method \in {S_GET, S_POST}
    /\ req.path = P_CB
    /\ req.hdr.present

\* C11 as stated: an event is published only for a request whose method is
\* GET or POST, whose path is /cb and which has a Full-Url header line; a
\* request with another method or another path, one that only begins with
\* /cb included, publishes nothing.
C11_Original ==
    /\ \A k \in 1..Len(conns) :
           conns[k].emitted # <<>> => ReqIsCallbackWithHeader(conns[k].req)
    /\ (xdone /\ xout.emit # <<>>) => ReqIsCallbackWithHeader(xreq)

\* The worker has handled the request for /cbx and published its header value.
C11_PrefixPathPublishes ==
    /\ xdone
    /\ xreq = ReqCbx
    /\ xout.emit = <<CallbackEvent(URL2)>>

\* The value of the request's Full-Url header is empty or only whitespace.
ReqValueBlank(req) ==
    /\ req.sent
    /\ req.hdr.present
    /\ trim(req.hdr.lead \o req.hdr.value \o req.hdr.trail) = <<>>

\* C12 as stated: the payload of every published event is non-empty, and a
\* /cb request whose Full-Url value is empty or only whitespace publishes
\* nothing and does not end the worker's loop.
C12_Original ==
    /\ \A k \in 1..Len(events) : events[k].payload # <<>>
    /\ \A k \in 1..Len(conns) :
           (Handled(conns[k]) /\ ReqMatchesCb(conns[k].req)
                /\ ReqValueBlank(conns[k].req))
           => (conns[k].emitted = <<>> /\ (JustHandled(conns[k]) /\ k < 2 => pc # "done"))
    /\ xdone => \A k \in 1..Len(xout.emit) : xout.emit[k].payload # <<>>
    /\ (xdone /\ ReqMatchesCb(xreq) /\ ReqValueBlank(xreq))
       => (xout.emit = <<>> /\ ~xout.brk)

\* The worker has handled a /cb request whose header value is blank,
\* published the empty payload and left the loop.
C12_BlankPublishes ==
    /\ xdone
    /\ xreq = ReqBlank
    /\ xout.emit = <<CallbackEvent(<<>>)>>
    /\ xout.brk

\* C13: a first accepted connection whose request does not match /cb is
\* answered with the bridge page, and a request that matches /cb and has a
\* Full-Url header is delivered in the same way as 1st and as 2nd accepted
\* connection: its value is the one event, it gets the success response and
\* the worker terminates.
C13_Ordering ==
    /\ (Len(conns) >= 1 /\ Handled(conns[1]) /\ ~ReqMatchesCb(conns[1].req))
       => (conns[1].resp = BridgeResponse /\ conns[1].emitted = <<>>)
    /\ \A k \in {1, 2} :
           (k <= Len(conns) /\ Handled(conns[k]) /\ ReqMatchesCb(conns[k].req)
                /\ ReqHasHeader(conns[k].req))
           => /\ conns[k].emitted = <<CallbackEvent(conns[k].req.hdr.value)>>
              /\ conns[k].resp = SuccessResponse
              /\ events = conns[k].emitted
              /\ pc = "done"
              /\ Len(conns) = k

\* The callback arrives as the 1st accepted connection and is delivered.
C13_Witness ==
    /\ Len(conns) = 1
    /\ conns[1].at = 0
    /\ conns[1].req = ReqCallback
    /\ conns[1].resp = SuccessResponse
    /\ events = <<CallbackEvent(URL1)>>
    /\ pc = "done"

\* The events emitted on the connections cs, in order.
RECURSIVE EmittedOn(_)
EmittedOn(cs) == IF cs = <<>> THEN <<>> ELSE Head(cs).emitted \o EmittedOn(Tail(cs))

\* C14: a failed write of a response changes neither the control flow nor
\* the events: the events are those of the handled requests; after a failed
\* write of the bridge page the worker has used one attempt and goes on as
\* after a successful one, accepting again or terminated with the budget;
\* after a failed write of the success response the event is published and
\* the worker is terminated.
C14_WriteBestEffort ==
    /\ events = EmittedOn(conns)
    /\ \A k \in 1..Len(conns) :
           LET c == conns[k]
           IN  (Handled(c) /\ ~c.wrote)
               => /\ c.resp = BridgeResponse
                     => /\ c.emitted = <<>>
                        /\ JustHandled(c)
                           => /\ iter = c.at + 1
                              /\ pc = IF iter < 2 THEN "accept" ELSE "done"
                              /\ alive = IF iter < 2 THEN 1 ELSE 0
                  /\ c.resp = SuccessResponse
                     => /\ c.emitted # <<>>
                        /\ events = c.emitted
                        /\ pc = "done"
                        /\ ~listener

\* Both writes of a flow failed: the bridge page's, then the success
\* response's.
C14_Witness ==
    /\ Len(conns) = 2
    /\ conns[1].resp = BridgeResponse /\ Handled(conns[1]) /\ ~conns[1].wrote
    /\ conns[2].resp = SuccessResponse /\ Handled(conns[2]) /\ ~conns[2].wrote
    /\ events = <<CallbackEvent(URL1)>>
    /\ pc = "done"

\* The request does not fit the worker's buffer.
ReqOversized(req) == Len(Render(req)) > 4096

\* The request is no HTTP request: the client sent nothing.
ReqMalformed(req) == ~req.sent

\* C15 as stated: a failed accept, a failed read and a malformed or oversized
\* request each use up exactly one of the two attempts and publish no event,
\* and the worker goes on or terminates with its budget; on a failed accept
\* or a failed read no response is written.
C15_Original ==
    /\ pc # "none" => accepts = iter + (IF pc = "read" \/ Delivered THEN 1 ELSE 0)
    /\ (pc = "done") <=> (pc # "none" /\ (Delivered \/ iter = 2))
    /\ events = EmittedOn(conns)
    /\ \A k \in 1..Len(conns) :
           LET c == conns[k]
           IN  /\ c.st = "readerr"
                  => (c.resp = NoResponse /\ ~c.wrote /\ c.emitted = <<>>)
               /\ (Handled(c) /\ (ReqMalformed(c.req) \/ ReqOversized(c.req)))
                  => c.emitted = <<>>
    /\ (xdone /\ (ReqMalformed(xreq) \/ ReqOversized(xreq)))
       => (xout.emit = <<>> /\ ~xout.brk)

\* The worker has handled the oversized request whose first 4096 bytes end in
\* the middle of the URL, and published the part of the URL it read.
C15_TruncatedUrlPublished ==
    /\ xdone
    /\ xreq = ReqCutInUrl
    /\ ReqOversized(xreq)
    /\ xout.emit = <<CallbackEvent(<<"h",":","/","c">>)>>
    /\ xout.brk

\* C16: at most one worker is alive at any time; every start call made while
\* a worker is alive fails at bind and starts no worker, whatever the worker
\* and the clients do in between; and once the worker has terminated and
\* released the port, a start call can succeed again.
C16_OneWorker ==
    /\ [](alive <= 1)
    /\ []((alive = 1) <=> listener)
    /\ [][alive = 1 => /\ spawned' = spawned
                       /\ okCalls' = okCalls
                       /\ alive' <= 1
                       /\ result' # result => IsBindError(result')]_vars
    /\ []((pc = "done" /\ okCalls < MaxStarts) => (alive = 0 /\ ENABLED StartOk))

\* A second worker was started after the first had terminated, and a start
\* call made while it is alive has failed at bind.
C16_Witness ==
    /\ spawned = 2
    /\ okCalls = 2
    /\ alive = 1
    /\ result = [ok |-> FALSE, msg |-> <<"Failed to bind port ", 17927, ": ", "AddrInUse">>]

\* C17: every accepted connection gets at most one response, and the two
\* kinds exclude each other: the connection on which the event is published
\* gets the empty success response and never the bridge page, every other
\* connection whose read succeeded gets the bridge page and nothing else,
\* and a connection whose read has not succeeded gets no response.
C17_OneResponse ==
    \A k \in 1..Len(conns) :
        LET c == conns[k]
        IN  /\ c.writes <= 1
            /\ (c.writes = 1) <=> Handled(c)
            /\ c.emitted # <<>>
               => /\ c.resp = SuccessResponse
                  /\ c.resp # BridgeResponse
                  /\ c.resp.body = <<>>
            /\ (Handled(c) /\ c.emitted = <<>>) => c.resp = BridgeResponse
            /\ ~Handled(c) => (c.resp = NoResponse /\ c.emitted = <<>>)

\* A /cb request without the header got the bridge page, and the callback
\* that followed got the success response.
C17_Witness ==
    /\ Len(conns) = 2
    /\ conns[1].req = ReqNoHeader /\ conns[1].resp = BridgeResponse
    /\ conns[1].writes = 1 /\ conns[1].emitted = <<>>
    /\ conns[2].req = ReqCallbackGet /\ conns[2].resp = SuccessResponse
    /\ conns[2].writes = 1 /\ conns[2].emitted = <<CallbackEvent(URL2)>>

====
